---- MODULE Spec2Model ----
(***************************************************************************)
(* Model of src/app.py: the HFPCP page-3 extraction pipeline               *)
(* (extract_page3_content, process_zip_file, analyze_paragraphs), the two  *)
(* paragraph generators and the Streamlit script main().                   *)
(*                                                                         *)
(* Text is a sequence of tokens.  A token is either a single character or  *)
(* one of the literal phrases the regular expressions of the source look   *)
(* for ("areas in need of housing", "support instructions", ...).  The     *)
(* regular expressions are evaluated the way Python's backtracking engine  *)
(* evaluates them: leftmost start, lazy quantifiers grown one token at a   *)
(* time, alternatives tried in the order written.                          *)
(***************************************************************************)
EXTENDS Integers, Sequences, FiniteSets, TLC

VARIABLES
    session_state,  \* st.session_state of each browser session
    zip_file,       \* the file held by each session's st.file_uploader
    run,            \* the last script run of each session: what it computed and rendered
    call            \* one call of a pure function: its arguments and result

vars == <<session_state, zip_file, run, call>>

----------------------------------------------------------------------------
(* Bounds of the model *)

MaxPageLen == 4      \* tokens of a raw page text
MaxSupportChunks == 3 \* phrases a support text is composed of
MaxReferrals == 3    \* referrals selected in the form
MaxTextLen == 2      \* characters of a free-text field
MaxMembers == 2      \* members of an uploaded archive

----------------------------------------------------------------------------
(* Strings *)

Whitespace == {" ", "\n"}

\* str.lower() on one token
Lower(t) ==
    CASE t = "A" -> "a"
      [] t = "B" -> "b"
      [] t = "Word" -> "word"
      [] t = "Areas in Need of Housing" -> "areas in need of housing"
      [] t = "Support Instructions" -> "support instructions"
      [] t = "Transitional" -> "transitional"
      [] t = "Sustaining" -> "sustaining"
      [] t = ".PDF" -> ".pdf"
      [] OTHER -> t

\* str.upper() on one character
Upper(t) ==
    CASE t = "a" -> "A"
      [] t = "b" -> "B"
      [] OTHER -> t

LowerAll(s) == [i \in 1..Len(s) |-> Lower(s[i])]

\* str.strip(): leading and trailing whitespace removed
RECURSIVE LStrip(_)
LStrip(s) ==
    IF s # <<>> /\ Head(s) \in Whitespace THEN LStrip(Tail(s)) ELSE s

RECURSIVE RStrip(_)
RStrip(s) ==
    IF s # <<>> /\ s[Len(s)] \in Whitespace
    THEN RStrip(SubSeq(s, 1, Len(s) - 1)) ELSE s

Strip(s) == RStrip(LStrip(s))

\* re.sub(r'\s+', ' ', text): every run of whitespace becomes one space
RECURSIVE CollapseWhitespace(_)
CollapseWhitespace(s) ==
    IF s = <<>> THEN <<>>
    ELSE IF Head(s) \in Whitespace
         THEN <<" ">> \o CollapseWhitespace(LStrip(Tail(s)))
         ELSE <<Head(s)>> \o CollapseWhitespace(Tail(s))

\* sep.join(parts), each part a text
RECURSIVE Join(_, _)
Join(sep, parts) ==
    IF parts = <<>> THEN <<>>
    ELSE IF Len(parts) = 1 THEN parts[1]
    ELSE parts[1] \o sep \o Join(sep, Tail(parts))

\* all sequences over S of length at most n
RECURSIVE SeqsUpTo(_, _)
SeqsUpTo(S, n) ==
    IF n = 0 THEN {<<>>}
    ELSE LET shorter == SeqsUpTo(S, n - 1)
         IN shorter \cup {Append(s, x) : s \in {t \in shorter : Len(t) = n - 1}, x \in S}

----------------------------------------------------------------------------
(* Regular-expression primitives *)

NoMatch == [found |-> FALSE, group1 |-> <<>>, end |-> 0]

\* `$` without re.MULTILINE: the end of the text, or just before a final newline
AtDollar(text, p) ==
    \/ p = Len(text) + 1
    \/ p = Len(text) /\ text[p] = "\n"

\* one alternative of a group at position p (re.IGNORECASE)
MatchAlt(alt, text, p) ==
    IF alt = "$" THEN AtDollar(text, p)
    ELSE p <= Len(text) /\ Lower(text[p]) = alt

AnyAlt(alts, text, p) == \E k \in 1..Len(alts) : MatchAlt(alts[k], text, p)

\* `(.*?)(alt1|alt2|...)` from position p: the lazy group grows one token at a
\* time until some alternative matches; 0 when none ever does.  Without
\* re.DOTALL the dot does not match a newline.
RECURSIVE LazyUntil(_, _, _, _)
LazyUntil(text, p, alts, dotall) ==
    IF AnyAlt(alts, text, p) THEN p
    ELSE IF p > Len(text) THEN 0
    ELSE IF ~dotall /\ text[p] = "\n" THEN 0
    ELSE LazyUntil(text, p + 1, alts, dotall)

----------------------------------------------------------------------------
(* extract_page3_content *)

AreasStart == {"areas in need of housing", "area in need of housing"}
AreasEnd == <<"support instructions", "moving expenses",
              "risks and risk mitigation", "non-housing">>
SupportStart == "support instructions"
SupportEnd == <<"moving expenses", "risks and risk mitigation", "non-housing", "$">>

\* the end is looked for keyword by keyword, in the order the pattern lists them
RECURSIVE FirstOf(_, _, _)
FirstOf(text, p, alt) ==
    IF p > Len(text) + 1 THEN 0
    ELSE IF MatchAlt(alt, text, p) THEN p
    ELSE FirstOf(text, p + 1, alt)

RECURSIVE PriorityUntil(_, _, _, _)
PriorityUntil(text, p, alts, k) ==
    IF k > Len(alts) THEN 0
    ELSE IF FirstOf(text, p, alts[k]) # 0 THEN FirstOf(text, p, alts[k])
    ELSE PriorityUntil(text, p, alts, k + 1)

RECURSIVE SearchSectionByPriority(_, _, _, _)
SearchSectionByPriority(text, i, starts, ends) ==
    IF i > Len(text) THEN NoMatch
    ELSE LET q == IF Lower(text[i]) \in starts
                  THEN PriorityUntil(text, i + 1, ends, 1) ELSE 0
         IN IF q # 0
            THEN [found |-> TRUE, group1 |-> SubSeq(text, i + 1, q - 1), end |-> q]
            ELSE SearchSectionByPriority(text, i + 1, starts, ends)

\* re.search(start (.*?) (end alternatives)) from position i
RECURSIVE SearchSection(_, _, _, _)
SearchSection(text, i, starts, ends) ==
    IF i > Len(text) THEN NoMatch
    ELSE LET q == IF Lower(text[i]) \in starts
                  THEN LazyUntil(text, i + 1, ends, TRUE) ELSE 0
         IN IF q # 0
            THEN [found |-> TRUE, group1 |-> SubSeq(text, i + 1, q - 1), end |-> q]
            ELSE SearchSection(text, i + 1, starts, ends)

\* lines 25-26
Normalize(text) == LowerAll(CollapseWhitespace(text))

\* lines 31 and 36: match.group(1).strip() if match else ""
ContentOf(match) == IF match.found THEN Strip(match.group1) ELSE <<>>

\* lines 28-38, on the normalized text
SplitSections(text) ==
    [areas |-> ContentOf(SearchSection(text, 1, AreasStart, AreasEnd)),
     support |-> ContentOf(SearchSection(text, 1, {SupportStart}, SupportEnd)),
     errors |-> <<>>]

\* A PDF file: whether pdfplumber can open it, and the text of each page
\* (<<>> when extract_text() gives nothing).
CorruptPdf == [opens |-> FALSE, pages |-> <<>>]
PdfOf(pages) == [opens |-> TRUE, pages |-> pages]

\* The result carries the st.error calls of the except branch.
extract_page3_content(pdf_bytes) ==
    IF ~pdf_bytes.opens
    THEN [areas |-> <<>>, support |-> <<>>, errors |-> <<"Error processing PDF">>]
    ELSE IF Len(pdf_bytes.pages) >= 3
         THEN LET text == pdf_bytes.pages[3]
              IN IF text = <<>>
                 THEN [areas |-> <<>>, support |-> <<>>, errors |-> <<>>]
                 ELSE SplitSections(Normalize(text))
         ELSE [areas |-> <<>>, support |-> <<>>, errors |-> <<>>]

----------------------------------------------------------------------------
(* process_zip_file *)

\* An uploaded file: bytes that zipfile.ZipFile rejects (BadZipFile), or an
\* archive with its members in namelist() order.  A member has a file name
\* <<stem, extension>>, may fail to be read (zip_ref.open / read raises), and
\* holds the bytes of a PDF.
BadZip == [well_formed |-> FALSE, members |-> <<>>]
ZipOf(members) == [well_formed |-> TRUE, members |-> members]

\* file_name.lower().endswith('.pdf')
IsPdfName(file_name) == Lower(file_name[Len(file_name)]) = ".pdf"

\* lines 52-65 for one member: the record appended, the st.warning and the
\* st.error calls made
\* lines 56-63: c is what extract_page3_content gave for the member
Extracted(file_name, c) ==
    IF c.areas # <<>> \/ c.support # <<>>
    THEN [patterns |-> <<[file_name |-> file_name, areas |-> c.areas, support |-> c.support]>>,
          warnings |-> <<>>,
          errors |-> c.errors]
    ELSE [patterns |-> <<>>,
          warnings |-> <<[text |-> "Could not extract content", file_name |-> file_name]>>,
          errors |-> c.errors]

ProcessMember(m) ==
    IF ~m.readable
    THEN [patterns |-> <<>>,
          warnings |-> <<[text |-> "Error processing", file_name |-> m.file_name]>>,
          errors |-> <<>>]
    ELSE Extracted(m.file_name, extract_page3_content(m.pdf))

\* what one member adds to the patterns and to the messages
Collect(acc, r) ==
    [patterns |-> acc.patterns \o r.patterns,
     warnings |-> acc.warnings \o r.warnings,
     errors |-> acc.errors \o r.errors]

\* the same, but a member that cannot be read ends the loop: its exception
\* is not caught per member
RECURSIVE ProcessMembersAborting(_, _, _)
ProcessMembersAborting(members, i, acc) ==
    IF i > Len(members) THEN acc
    ELSE IF ~IsPdfName(members[i].file_name)
         THEN ProcessMembersAborting(members, i + 1, acc)
    ELSE IF ~members[i].readable
         THEN [patterns |-> <<>>,
               warnings |-> acc.warnings,
               errors |-> Append(acc.errors, "Error processing archive")]
    ELSE ProcessMembersAborting(members, i + 1, Collect(acc, ProcessMember(members[i])))

\* lines 50-65: the loop over namelist(), from member i on
RECURSIVE ProcessMembers(_, _, _)
ProcessMembers(members, i, acc) ==
    IF i > Len(members) THEN acc
    ELSE IF ~IsPdfName(members[i].file_name)
         THEN ProcessMembers(members, i + 1, acc)
    ELSE ProcessMembers(members, i + 1, Collect(acc, ProcessMember(members[i])))

NothingProcessed == [patterns |-> <<>>, warnings |-> <<>>, errors |-> <<>>]

\* BadZipFile is not caught: nothing is reported and the exception leaves the call
process_zip_file_uncaught(zip_bytes) ==
    IF ~zip_bytes.well_formed
    THEN [patterns |-> <<>>, warnings |-> <<>>, errors |-> <<>>, raised |-> TRUE]
    ELSE [raised |-> FALSE] @@ ProcessMembers(zip_bytes.members, 1, NothingProcessed)

\* The result carries, beside the returned patterns, the st.warning and
\* st.error calls made and whether an exception left the function.
process_zip_file(zip_bytes) ==
    IF ~zip_bytes.well_formed
    THEN [patterns |-> <<>>, warnings |-> <<>>,
          errors |-> <<"Error: The uploaded file is not a valid ZIP file">>,
          raised |-> FALSE]
    ELSE [raised |-> FALSE] @@ ProcessMembers(zip_bytes.members, 1, NothingProcessed)

----------------------------------------------------------------------------
(* analyze_paragraphs *)

Sections == <<"communication", "decision making", "managing challenging behaviors">>
SectionEnd == <<"communication", "decision making", "managing challenging behaviors", "$">>
ActionCues == {"provider will", "we will", "they will", "support will", "assist", "help"}
ReferralCues == {"connect", "refer", "link"}
Terminators == <<".", "\n", "$">>

\* re.search(section ':(.*?)(?=(label|label|label|$))', areas), lines 84-85
RECURSIVE SearchLabel(_, _, _)
SearchLabel(text, i, section) ==
    IF i + 1 > Len(text) THEN NoMatch
    ELSE LET q == IF Lower(text[i]) = section /\ text[i + 1] = ":"
                  THEN LazyUntil(text, i + 2, SectionEnd, TRUE) ELSE 0
         IN IF q # 0
            THEN [found |-> TRUE, group1 |-> SubSeq(text, i + 2, q - 1), end |-> q]
            ELSE SearchLabel(text, i + 1, section)

\* lines 82-87: the dict of the sections found
SectionsOf(areas) ==
    [s \in {Sections[k] : k \in {j \in 1..Len(Sections) : SearchLabel(areas, 1, Sections[j]).found}}
        |-> Strip(SearchLabel(areas, 1, s).group1)]

\* where a match that stopped at q ends: a terminator is consumed, `$` is not
MatchEnd(text, q) == IF q <= Len(text) /\ text[q] \in {".", "\n"} THEN q + 1 ELSE q

\* re.findall(cue '(.*?)(?:\.|\n|$)', support), lines 99-100
RECURSIVE FindActions(_, _)
FindActions(text, i) ==
    IF i > Len(text) THEN <<>>
    ELSE IF Lower(text[i]) \in ActionCues
         THEN LET q == LazyUntil(text, i + 1, Terminators, FALSE)
              IN <<SubSeq(text, i + 1, q - 1)>> \o FindActions(text, MatchEnd(text, q))
         ELSE FindActions(text, i + 1)

\* ` (?:to|for) ` at position p
ToOrForAt(text, p) ==
    /\ p + 2 <= Len(text)
    /\ text[p] = " "
    /\ Lower(text[p + 1]) \in {"to", "for"}
    /\ text[p + 2] = " "

\* `.*? (?:to|for) ` from position p: where the space before to/for is
RECURSIVE LazyUntilToOrFor(_, _)
LazyUntilToOrFor(text, p) ==
    IF ToOrForAt(text, p) THEN p
    ELSE IF p > Len(text) THEN 0
    ELSE IF text[p] = "\n" THEN 0
    ELSE LazyUntilToOrFor(text, p + 1)

\* re.findall(cue '.*? (?:to|for) (.*?)(?:\.|\n|$)', support), lines 104-105
RECURSIVE FindReferrals(_, _)
FindReferrals(text, i) ==
    IF i > Len(text) THEN <<>>
    ELSE LET t == IF Lower(text[i]) \in ReferralCues
                  THEN LazyUntilToOrFor(text, i + 1) ELSE 0
         IN IF t # 0
            THEN LET q == LazyUntil(text, t + 3, Terminators, FALSE)
                 IN <<SubSeq(text, t + 3, q - 1)>> \o FindReferrals(text, MatchEnd(text, q))
            ELSE FindReferrals(text, i + 1)

\* [phrase.strip() for phrase in phrases if phrase.strip()], lines 101 and 106
RECURSIVE StripPhrases(_)
StripPhrases(phrases) ==
    IF phrases = <<>> THEN <<>>
    ELSE (IF Strip(Head(phrases)) # <<>> THEN <<Strip(Head(phrases))>> ELSE <<>>)
         \o StripPhrases(Tail(phrases))

Range(s) == {s[i] : i \in 1..Len(s)}

\* the list is stored as extracted
ListAsIs(referrals) == {referrals}

\* list(set(referrals)), line 112: the entries of the set in the order its
\* iteration happens to give, which the language does not fix
ListOfSet(referrals) ==
    LET S == Range(referrals)
    IN {s \in [1..Cardinality(S) -> S] : \A i, j \in 1..Cardinality(S) : s[i] = s[j] => i = j}

\* lines 93-113 for one record: the insights it may contribute
\* line 94
ServiceTypeOf(support) ==
    IF \E i \in 1..Len(support) : Lower(support[i]) = "transition"
    THEN "Transitional" ELSE "Sustaining"

\* lines 108-113
SupportInsight(service_type, actions, referrals) ==
    IF actions # <<>> \/ referrals # <<>>
    THEN {<<[service_type |-> service_type, actions |-> actions, referrals |-> l]>>
             : l \in ListOfSet(referrals)}
    ELSE {<<>>}

SupportInsightsOf(support) ==
    IF support = <<>> THEN {<<>>}
    ELSE SupportInsight(ServiceTypeOf(support),
                        StripPhrases(FindActions(support, 1)),
                        StripPhrases(FindReferrals(support, 1)))

\* lines 89-90
NonEmptyDict(sections) == IF DOMAIN sections # {} THEN <<sections>> ELSE <<>>

\* lines 80-90 for one record
AreasInsightsOf(areas) ==
    IF areas = <<>> THEN <<>> ELSE NonEmptyDict(SectionsOf(areas))

\* The set of results the call may return, one for each order the referral
\* sets may be listed in.
RECURSIVE analyze_paragraphs(_)
analyze_paragraphs(patterns) ==
    IF patterns = <<>> THEN {[areas_insights |-> <<>>, support_insights |-> <<>>]}
    ELSE LET p == Head(patterns)
             skip == p.areas = <<>> /\ p.support = <<>>
         IN {[areas_insights |-> (IF skip THEN <<>> ELSE AreasInsightsOf(p.areas))
                                    \o rest.areas_insights,
              support_insights |-> (IF skip THEN <<>> ELSE s) \o rest.support_insights]
                : s \in SupportInsightsOf(p.support), rest \in analyze_paragraphs(Tail(patterns))}

----------------------------------------------------------------------------
(* Paragraph generation *)

\* str.capitalize(): the first character upper-cased, the others lower-cased
Capitalize(s) ==
    IF s = <<>> THEN <<>> ELSE <<Upper(Head(s))>> \o LowerAll(Tail(s))

In(x, list) == \E i \in 1..Len(list) : list[i] = x

\* the needs are emitted in the order they were selected
generate_areas_paragraph_selection_order(client_name, mental_health, communication_issues, decision_issues, behavior_issues, mobility_issues, selected_needs) ==
    LET base == client_name \o <<" is currently navigating ">> \o mental_health
                \o <<", while seeking housing services.", "\n\n">>
        issues == [n \in {"Communication", "Decision Making",
                          "Managing Challenging Behaviors", "Mobility"} |->
                     CASE n = "Communication" -> communication_issues
                       [] n = "Decision Making" -> decision_issues
                       [] n = "Managing Challenging Behaviors" -> behavior_issues
                       [] OTHER -> mobility_issues]
        paragraphs == [i \in 1..Len(selected_needs) |->
                         IF issues[selected_needs[i]] # <<>>
                         THEN <<<<selected_needs[i]>> \o <<": ">>
                                \o Capitalize(issues[selected_needs[i]])>>
                         ELSE <<>>]
    IN base \o Join(<<"\n\n">>, Join(<<>>, paragraphs))

\* lines 121-137
generate_areas_paragraph(client_name, mental_health, communication_issues, decision_issues, behavior_issues, mobility_issues, selected_needs) ==
    LET base == client_name \o <<" is currently navigating ">> \o mental_health
                \o <<", while seeking housing services.", "\n\n">>
        paragraphs ==
            (IF In("Communication", selected_needs) /\ communication_issues # <<>>
             THEN <<<<"Communication", ": ">> \o Capitalize(communication_issues)>>
             ELSE <<>>)
            \o (IF In("Decision Making", selected_needs) /\ decision_issues # <<>>
                THEN <<<<"Decision Making", ": ">> \o Capitalize(decision_issues)>>
                ELSE <<>>)
            \o (IF In("Managing Challenging Behaviors", selected_needs) /\ behavior_issues # <<>>
                THEN <<<<"Managing Challenging Behaviors", ": ">> \o Capitalize(behavior_issues)>>
                ELSE <<>>)
            \o (IF In("Mobility", selected_needs) /\ mobility_issues # <<>>
                THEN <<<<"Mobility", ": ">> \o Capitalize(mobility_issues)>>
                ELSE <<>>)
    IN base \o Join(<<"\n\n">>, paragraphs)

\* the last referral is joined by " and ", without the comma
ReferralsStrNoComma(referrals) ==
    IF Len(referrals) > 1
    THEN Join(<<", ">>, SubSeq(referrals, 1, Len(referrals) - 1))
         \o <<" and ">> \o referrals[Len(referrals)]
    ELSE referrals[1]

\* lines 158-161, for a non-empty list
ReferralsStr(referrals) ==
    IF Len(referrals) > 1
    THEN Join(<<", ">>, SubSeq(referrals, 1, Len(referrals) - 1))
         \o <<", and ">> \o referrals[Len(referrals)]
    ELSE referrals[1]

\* lines 139-165
generate_support_paragraph(client_name, service_type, housing_actions, support_actions, referrals) ==
    LET service_str == Lower(service_type)
        base == client_name \o <<" is starting with ", service_str, " services.", "\n\n">>
        sentences ==
            (IF housing_actions # <<>>
             THEN <<<<"A provider will assist ">> \o client_name \o <<" by ">>
                    \o housing_actions \o <<".">>>>
             ELSE <<>>)
            \o (IF support_actions # <<>>
                THEN <<<<"They will also provide support with ">> \o support_actions \o <<".">>>>
                ELSE <<>>)
            \o (IF referrals # <<>>
                THEN <<<<"Additionally, the provider will connect ">> \o client_name
                       \o <<" with resources for ">> \o ReferralsStr(referrals) \o <<".">>>>
                ELSE <<>>)
    IN base \o Join(<<" ">>, sentences)

----------------------------------------------------------------------------
(* main: one run of the Streamlit script *)

Sessions == {1, 2}

NoFile == [present |-> FALSE, bytes |-> BadZip]
FileOf(zip_bytes) == [present |-> TRUE, bytes |-> zip_bytes]

\* lines 175-180: the session state a new session starts with
NewSessionState ==
    [patterns |-> <<>>, examples |-> <<>>, debug_info |-> <<>>,
     has_insights |-> FALSE, areas_insights |-> <<>>, support_insights |-> <<>>]

Needs == {"Communication", "Decision Making", "Managing Challenging Behaviors", "Mobility"}

\* lines 225-288: the widgets' values before the operator touches them
DefaultForm ==
    [client_name |-> <<>>,
     diagnosis |-> <<>>,
     mental_health |-> <<"depression, anxiety">>,
     selected_needs |-> <<"Communication", "Decision Making">>,
     issues |-> [n \in Needs |-> <<"a">>],
     service_type |-> "Transitional",
     housing_actions |-> <<"searching for suitable apartments">>,
     support_actions |-> <<"budgeting assistance">>,
     referrals |-> <<<<"therapy/counseling">>, <<"financial management">>>>]

\* what a run that does nothing renders
EmptyRun ==
    [uploaded |-> FALSE, patterns |-> <<>>, warnings |-> <<>>, errors |-> <<>>,
     raised |-> FALSE, success |-> <<>>,
     form |-> DefaultForm, submitted |-> FALSE, calls |-> <<>>, generated |-> FALSE,
     areas_paragraph |-> <<>>, support_paragraph |-> <<>>, download |-> <<>>]

\* line 198
DebugInfoOf(patterns) ==
    [i \in 1..Len(patterns) |-> <<patterns[i].areas, patterns[i].support>>]

\* what lines 192-208 render of the call's result r
Shown(r) ==
    [EmptyRun EXCEPT !.uploaded = TRUE, !.patterns = r.patterns, !.warnings = r.warnings,
                     !.errors = r.errors, !.raised = r.raised]

\* debug_info is stored even when nothing was extracted
SidebarAlwaysStoring(ss, r, shown) ==
    {[ss |-> [ss EXCEPT !.patterns = IF r.patterns # <<>> THEN r.patterns ELSE @,
                        !.debug_info = DebugInfoOf(r.patterns)],
      run |-> shown]}

\* lines 202-206: a is what analyze_paragraphs returned
Analyzed(ss, r, shown, a) ==
    IF a.areas_insights # <<>> \/ a.support_insights # <<>>
    THEN [ss |-> [ss EXCEPT !.patterns = r.patterns,
                            !.debug_info = DebugInfoOf(r.patterns),
                            !.has_insights = TRUE,
                            !.areas_insights = a.areas_insights,
                            !.support_insights = a.support_insights],
          run |-> [shown EXCEPT !.success = <<"Processed HFPCP documents">>]]
    ELSE [ss |-> [ss EXCEPT !.patterns = r.patterns,
                            !.debug_info = DebugInfoOf(r.patterns)],
          run |-> [shown EXCEPT
                     !.success = <<"Processed HFPCP documents">>,
                     !.warnings = Append(@, [text |-> "Could not identify patterns in the documents",
                                             file_name |-> <<>>])]]

\* lines 193-208: r is what process_zip_file returned
Sidebar(ss, r, shown) ==
    IF r.patterns # <<>>
    THEN {Analyzed(ss, r, shown, a) : a \in analyze_paragraphs(r.patterns)}
    ELSE {[ss |-> ss,
           run |-> [shown EXCEPT !.warnings =
                      Append(@, [text |-> "No valid page 3 content found in the uploaded documents",
                                 file_name |-> <<>>])]]}

\* lines 190-208: the sidebar.  The set of outcomes: the new session state and
\* what the run has rendered so far.
UploadStep(ss, file) ==
    IF ~file.present THEN {[ss |-> ss, run |-> EmptyRun]}
    ELSE Sidebar(ss, process_zip_file(file.bytes), Shown(process_zip_file(file.bytes)))

\* lines 244-271: a need's text area exists only while the need is selected
IssuesOf(form, need) == IF In(need, form.selected_needs) THEN form.issues[need] ELSE <<>>

\* lines 323-325
FullDiagnosis(form) ==
    Join(<<", ">>, form.diagnosis)
    \o (IF Strip(form.mental_health) # <<>>
        THEN <<" (">> \o form.mental_health \o <<")">> ELSE <<>>)

\* line 355
DownloadData(form, areas_paragraph, support_paragraph) ==
    <<"DIAGNOSIS: ">> \o FullDiagnosis(form) \o <<"\n\n", "ASSESSED NEEDS: ">>
    \o Join(<<", ">>, [i \in 1..Len(form.selected_needs) |-> <<form.selected_needs[i]>>])
    \o <<"\n\n", "AREAS IN NEED OF HOUSING", "\n\n">> \o areas_paragraph
    \o <<"\n\n\n", "SUPPORT INSTRUCTIONS", "\n\n">> \o support_paragraph

\* lines 337-358
Rendered(r, form, areas_paragraph, support_paragraph) ==
    [r EXCEPT !.calls = <<"generate_areas_paragraph", "generate_support_paragraph">>,
              !.generated = TRUE,
              !.success = Append(@, "Paragraphs created"),
              !.areas_paragraph = areas_paragraph,
              !.support_paragraph = support_paragraph,
              !.download = DownloadData(form, areas_paragraph, support_paragraph)]

\* lines 321-358
Generated(r, form) ==
    Rendered(r, form,
        generate_areas_paragraph(form.client_name, FullDiagnosis(form),
            IssuesOf(form, "Communication"), IssuesOf(form, "Decision Making"),
            IssuesOf(form, "Managing Challenging Behaviors"), IssuesOf(form, "Mobility"),
            form.selected_needs),
        generate_support_paragraph(form.client_name, form.service_type,
            form.housing_actions, form.support_actions, form.referrals))

\* the diagnosis is not required
GenerateStepWithoutDiagnosisCheck(ss, r, form) ==
    IF form.client_name = <<>>
    THEN [r EXCEPT !.submitted = TRUE, !.errors = Append(@, "Please enter client name")]
    ELSE IF form.selected_needs = <<>>
    THEN [r EXCEPT !.submitted = TRUE,
                   !.errors = Append(@, "Please select at least one assessed need")]
    ELSE Generated([r EXCEPT !.submitted = TRUE], form)

\* an example of the stored corpus is appended to the areas paragraph
GenerateStepQuotingCorpus(ss, r, form) ==
    IF form.client_name = <<>> \/ form.diagnosis = <<>> \/ form.selected_needs = <<>>
    THEN [r EXCEPT !.submitted = TRUE, !.errors = Append(@, "Please complete the form")]
    ELSE IF ss.patterns = <<>> THEN Generated([r EXCEPT !.submitted = TRUE], form)
    ELSE [Generated([r EXCEPT !.submitted = TRUE], form)
            EXCEPT !.areas_paragraph = @ \o <<"\n\n">> \o ss.patterns[1].areas]

\* lines 308-358, for a submitted form; ss is the session state, which the
\* script can read, and r what the run has rendered so far
GenerateStep(ss, r, form) ==
    IF form.client_name = <<>>
    THEN [r EXCEPT !.submitted = TRUE, !.errors = Append(@, "Please enter client name")]
    ELSE IF form.diagnosis = <<>>
    THEN [r EXCEPT !.submitted = TRUE,
                   !.errors = Append(@, "Please select at least one diagnosis")]
    ELSE IF form.selected_needs = <<>>
    THEN [r EXCEPT !.submitted = TRUE,
                   !.errors = Append(@, "Please select at least one assessed need")]
    ELSE Generated([r EXCEPT !.submitted = TRUE], form)

\* lines 171-358: one run of the script, in a session whose state is ss,
\* whose uploader holds `file` and whose form holds `form`.  The set of
\* outcomes [ss, run].
main(ss, file, form, submitted) ==
    {[ss |-> u.ss,
      run |-> IF submitted
              THEN GenerateStep(u.ss, [u.run EXCEPT !.form = form], form)
              ELSE [u.run EXCEPT !.form = form]]
        : u \in UploadStep(ss, file)}

----------------------------------------------------------------------------
(* The sessions *)

IdleCall == [fn |-> "none", args |-> <<>>, done |-> TRUE, ret |-> <<>>]

InitSessions ==
    /\ session_state = [s \in Sessions |-> NewSessionState]
    /\ zip_file = [s \in Sessions |-> NoFile]
    /\ run = [s \in Sessions |-> EmptyRun]

\* the operator puts a file into the uploader: the script runs
Upload(s, zip_bytes) ==
    /\ \E o \in main(session_state[s], FileOf(zip_bytes), run[s].form, FALSE) :
          /\ session_state' = [session_state EXCEPT ![s] = o.ss]
          /\ run' = [run EXCEPT ![s] = o.run]
    /\ zip_file' = [zip_file EXCEPT ![s] = FileOf(zip_bytes)]
    /\ UNCHANGED call

\* the operator removes the file from the uploader: the script runs
RemoveFile(s) ==
    /\ zip_file[s].present
    /\ \E o \in main(session_state[s], NoFile, run[s].form, FALSE) :
          /\ session_state' = [session_state EXCEPT ![s] = o.ss]
          /\ run' = [run EXCEPT ![s] = o.run]
    /\ zip_file' = [zip_file EXCEPT ![s] = NoFile]
    /\ UNCHANGED call

\* the operator submits the form: the script runs, the uploader still
\* holding its file
Submit(s, form) ==
    /\ \E o \in main(session_state[s], zip_file[s], form, TRUE) :
          /\ session_state' = [session_state EXCEPT ![s] = o.ss]
          /\ run' = [run EXCEPT ![s] = o.run]
    /\ UNCHANGED <<zip_file, call>>

----------------------------------------------------------------------------
(* Inputs *)

FullPage ==
    <<"Areas in Need of Housing", "\n", "communication", ":", " ", "x", " ",
      "Support Instructions", " ", "connect", " ", "to", " ", "x", ".", " ",
      "moving expenses">>
AreasOnlyPage == <<"area in need of housing", " ", "Word", "\n", "non-housing">>
NoSectionPage == <<"Word", " ", "moving expenses">>

MemberOf(file_name, readable, pdf) ==
    [file_name |-> file_name, readable |-> readable, pdf |-> pdf]

ValidMember == MemberOf(<<"a", ".pdf">>, TRUE, PdfOf(<<<<>>, <<>>, FullPage>>))
UpperCaseMember == MemberOf(<<"b", ".PDF">>, TRUE, PdfOf(<<<<>>, <<>>, AreasOnlyPage, <<>>>>))
CorruptMember == MemberOf(<<"c", ".pdf">>, TRUE, CorruptPdf)
NoSectionMember == MemberOf(<<"d", ".pdf">>, TRUE, PdfOf(<<<<>>, <<>>, NoSectionPage>>))
UnreadableMember == MemberOf(<<"e", ".pdf">>, FALSE, PdfOf(<<<<>>, <<>>, FullPage>>))
TextMember == MemberOf(<<"f", ".txt">>, TRUE, PdfOf(<<<<>>, <<>>, FullPage>>))
ShortMember == MemberOf(<<"g", ".pdf">>, TRUE, PdfOf(<<FullPage, FullPage>>))

SampleMembers ==
    {ValidMember, UpperCaseMember, CorruptMember, NoSectionMember, UnreadableMember,
     TextMember, ShortMember}

Archives == {BadZip} \cup {ZipOf(m) : m \in SeqsUpTo(SampleMembers, MaxMembers)}

\* the files uploaded in the sessions
SessionArchives ==
    {BadZip,
     ZipOf(<<ValidMember>>),
     ZipOf(<<UpperCaseMember, CorruptMember>>),
     ZipOf(<<CorruptMember, NoSectionMember, TextMember>>),
     ZipOf(<<UnreadableMember, ValidMember, UpperCaseMember>>)}

\* the forms submitted in the sessions
FormOf(client_name, diagnosis, selected_needs) ==
    [DefaultForm EXCEPT !.client_name = client_name, !.diagnosis = diagnosis,
                        !.selected_needs = selected_needs]

SessionForms ==
    {FormOf(<<"Jane Doe">>, <<<<"Mental Illness">>>>, <<"Mobility", "Communication">>),
     FormOf(<<"Jane Doe">>, <<<<"Mental Illness">>, <<"Learning Disability">>>>, <<"Communication">>),
     FormOf(<<>>, <<<<"Mental Illness">>>>, <<"Communication">>),
     FormOf(<<"Jane Doe">>, <<>>, <<"Communication">>),
     FormOf(<<"Jane Doe">>, <<<<"Mental Illness">>>>, <<>>),
     FormOf(<<>>, <<>>, <<>>)}

----------------------------------------------------------------------------
(* One session *)

Init ==
    /\ InitSessions
    /\ call = IdleCall

Next ==
    \/ \E a \in SessionArchives : Upload(1, a)
    \/ RemoveFile(1)
    \/ \E f \in SessionForms : Submit(1, f)

Spec == Init /\ [][Next]_vars

(* Two sessions side by side *)

PairArchives == {BadZip, ZipOf(<<ValidMember>>), ZipOf(<<UpperCaseMember, CorruptMember>>)}

PairForms ==
    {FormOf(<<"Jane Doe">>, <<<<"Mental Illness">>>>, <<"Mobility", "Communication">>),
     FormOf(<<"Jane Doe">>, <<<<"Mental Illness">>>>, <<"Communication">>),
     FormOf(<<>>, <<<<"Mental Illness">>>>, <<"Communication">>)}

NextPair ==
    \/ \E s \in Sessions, a \in PairArchives : Upload(s, a)
    \/ \E s \in Sessions : RemoveFile(s)
    \/ \E s \in Sessions, f \in PairForms : Submit(s, f)

SpecPair == Init /\ [][NextPair]_vars

----------------------------------------------------------------------------
(* Calls of the functions, each on every input of a bounded set *)

CallOf(fn, args) == [fn |-> fn, args |-> args, done |-> FALSE, ret |-> <<>>]

Return(fn, ret) ==
    /\ call.fn = fn
    /\ ~call.done
    /\ call' = [call EXCEPT !.done = TRUE, !.ret = ret]
    /\ UNCHANGED <<session_state, zip_file, run>>

(* extract_page3_content *)

PageTokens ==
    {"Areas in Need of Housing", "area in need of housing", "support instructions",
     "moving expenses", "risks and risk mitigation", "non-housing", "Word", " ", "\n"}

Pdfs ==
    {PdfOf(<<<<>>, <<>>, t>>) : t \in SeqsUpTo(PageTokens, MaxPageLen)}
    \cup {CorruptPdf, PdfOf(<<FullPage, FullPage>>)}

InitSplit ==
    /\ InitSessions
    /\ call \in {CallOf("extract_page3_content", pdf) : pdf \in Pdfs}

CallExtract == Return("extract_page3_content", extract_page3_content(call.args))

SpecSplit == InitSplit /\ [][CallExtract]_vars

(* process_zip_file *)

InitIngest ==
    /\ InitSessions
    /\ call \in {CallOf("process_zip_file", a) : a \in Archives}

CallProcessZipFile == Return("process_zip_file", process_zip_file(call.args))

SpecIngest == InitIngest /\ [][CallProcessZipFile]_vars

(* analyze_paragraphs *)

SupportChunks ==
    {<<"connect", " ", "to", " ", "x">>,
     <<"refer", " ", "Word", " ", "for", " ", "x", " ">>,
     <<"link", " ", "to", " ", "y">>,
     <<"connect", " ", "to", " ">>,
     <<"assist", " ", "x">>,
     <<"transition">>,
     <<".">>, <<" ">>, <<"\n">>}

SupportTexts == {Join(<<>>, c) : c \in SeqsUpTo(SupportChunks, MaxSupportChunks)}

AreasTexts ==
    {<<>>,
     <<"word">>,
     <<"communication", ":", " ", "x", " ", "decision making", ":", "y", " ", "communication">>}

PatternOf(areas, support) == [file_name |-> <<"a", ".pdf">>, areas |-> areas, support |-> support]

PatternLists ==
    {<<PatternOf(a, s)>> : a \in AreasTexts, s \in SupportTexts}
    \cup {<<PatternOf(<<"word">>, <<"link", " ", "to", " ", "y">>), PatternOf(<<>>, s)>>
            : s \in SupportTexts}

InitAnalyze ==
    /\ InitSessions
    /\ call \in {CallOf("analyze_paragraphs", p) : p \in PatternLists}

CallAnalyze == \E a \in analyze_paragraphs(call.args) : Return("analyze_paragraphs", a)

SpecAnalyze == InitAnalyze /\ [][CallAnalyze]_vars

(* generate_areas_paragraph *)

Chars == {"a", "B", " "}

\* the orders in which needs can be selected
NeedOrders == {o \in SeqsUpTo(Needs, Cardinality(Needs)) : \A i, j \in 1..Len(o) : o[i] = o[j] => i = j}

AreasArgs ==
    [client_name : {<<"Jane Doe">>},
     mental_health : {<<"depression, anxiety">>},
     communication_issues : SeqsUpTo(Chars, MaxTextLen),
     decision_issues : {<<>>, <<"b", "A">>},
     behavior_issues : {<<>>, <<"a">>},
     mobility_issues : {<<>>, <<"B", "a">>},
     selected_needs : NeedOrders]

InitAreas ==
    /\ InitSessions
    /\ call \in {CallOf("generate_areas_paragraph", a) : a \in AreasArgs}

CallGenerateAreas ==
    Return("generate_areas_paragraph",
           generate_areas_paragraph(call.args.client_name, call.args.mental_health,
               call.args.communication_issues, call.args.decision_issues,
               call.args.behavior_issues, call.args.mobility_issues,
               call.args.selected_needs))

SpecAreas == InitAreas /\ [][CallGenerateAreas]_vars

(* generate_support_paragraph *)

\* line 286-287
ReferralOptions ==
    {<<"therapy/counseling">>, <<"employment support">>, <<"financial management">>,
     <<"childcare services">>, <<"medical care">>, <<"support groups">>}

ReferralLists ==
    {r \in SeqsUpTo(ReferralOptions, MaxReferrals) : \A i, j \in 1..Len(r) : r[i] = r[j] => i = j}

SupportArgs ==
    [client_name : {<<"Jane Doe">>},
     service_type : {"Transitional", "Sustaining"},
     housing_actions : {<<>>, <<"contacting landlords">>},
     support_actions : {<<>>, <<"budgeting assistance">>},
     referrals : ReferralLists]

InitSupport ==
    /\ InitSessions
    /\ call \in {CallOf("generate_support_paragraph", a) : a \in SupportArgs}

CallGenerateSupport ==
    Return("generate_support_paragraph",
           generate_support_paragraph(call.args.client_name, call.args.service_type,
               call.args.housing_actions, call.args.support_actions, call.args.referrals))

SpecSupport == InitSupport /\ [][CallGenerateSupport]_vars

----------------------------------------------------------------------------
(* Properties *)

Min(S) == CHOOSE x \in S : \A y \in S : x <= y
Max(S) == CHOOSE x \in S : \A y \in S : x >= y

Occurrences(text, token) == {i \in 1..Len(text) : text[i] = token}
OccurrencesOfAny(text, tokens) == {i \in 1..Len(text) : text[i] \in tokens}

\* a text without the whitespace before its first and after its last
\* non-blank token
Trimmed(text) ==
    IF OccurrencesOfAny(text, Whitespace) = 1..Len(text) THEN <<>>
    ELSE SubSeq(text, Min((1..Len(text)) \ OccurrencesOfAny(text, Whitespace)),
                      Max((1..Len(text)) \ OccurrencesOfAny(text, Whitespace)))

NamesOf(records) == [i \in 1..Len(records) |-> records[i].file_name]

HasPdfSuffix(m) == m.file_name[Len(m.file_name)] \in {".pdf", ".PDF", ".Pdf"}

YieldsContent(m) ==
    /\ m.readable
    /\ m.pdf.opens
    /\ \/ extract_page3_content(m.pdf).areas # <<>>
       \/ extract_page3_content(m.pdf).support # <<>>

YieldingPdf(m) == HasPdfSuffix(m) /\ YieldsContent(m)
FailingPdf(m) == HasPdfSuffix(m) /\ ~YieldsContent(m)

IngestDone == call.fn = "process_zip_file" /\ call.done

\* C1: of the '.pdf' members of a well-formed archive, taken in archive
\* order, those whose extraction yields a non-empty section give the records
\* (one each, no warning) and all the others (unreadable, corrupt, two empty
\* sections) give the warnings (one each, no record); a failing member neither
\* stops the members after it nor removes the records before it.
C1_PerMemberIsolation ==
    (IngestDone /\ call.args.well_formed) =>
        /\ NamesOf(call.ret.patterns) = NamesOf(SelectSeq(call.args.members, YieldingPdf))
        /\ NamesOf(call.ret.warnings) = NamesOf(SelectSeq(call.args.members, FailingPdf))
        /\ \A i \in 1..Len(call.ret.patterns) :
              call.ret.patterns[i].areas # <<>> \/ call.ret.patterns[i].support # <<>>

\* a corrupted entry followed by a valid PDF: one record, one warning
C1_Witness ==
    /\ IngestDone
    /\ call.args.members = <<CorruptMember, ValidMember>>
    /\ Len(call.ret.patterns) = 1
    /\ Len(call.ret.warnings) = 1

\* C8: bytes that are no well-formed archive are reported once, give no
\* record and no exception leaves process_zip_file.
C8_InvalidArchive ==
    (IngestDone /\ ~call.args.well_formed) =>
        /\ call.ret.patterns = <<>>
        /\ Cardinality(Occurrences(call.ret.errors,
               "Error: The uploaded file is not a valid ZIP file")) = 1
        /\ Len(call.ret.errors) = 1
        /\ call.ret.warnings = <<>>
        /\ ~call.ret.raised

C8_Witness == IngestDone /\ ~call.args.well_formed /\ call.ret.errors # <<>>

MissingRequired(form) ==
    form.client_name = <<>> \/ form.diagnosis = <<>> \/ form.selected_needs = <<>>

ValidationMessages ==
    {"Please enter client name", "Please select at least one diagnosis",
     "Please select at least one assessed need"}

\* C2: a submitted form that lacks the client name, a diagnosis or a need is
\* refused with a validation message, neither generator is called and no
\* paragraph or export document is produced; paragraphs are produced only
\* when all three are present.
C2_AllOrNothing ==
    \A s \in Sessions :
        /\ (run[s].submitted /\ MissingRequired(run[s].form)) =>
              /\ OccurrencesOfAny(run[s].errors, ValidationMessages) # {}
              /\ run[s].calls = <<>>
              /\ ~run[s].generated
              /\ run[s].areas_paragraph = <<>>
              /\ run[s].support_paragraph = <<>>
              /\ run[s].download = <<>>
        /\ (run[s].generated \/ run[s].calls # <<>> \/ run[s].areas_paragraph # <<>>
              \/ run[s].support_paragraph # <<>> \/ run[s].download # <<>>) =>
              (run[s].submitted /\ ~MissingRequired(run[s].form))

\* a form with a name and a need but no diagnosis was refused
C2_Witness ==
    /\ run[1].submitted
    /\ run[1].form.client_name # <<>>
    /\ run[1].form.selected_needs # <<>>
    /\ run[1].form.diagnosis = <<>>
    /\ run[1].errors # <<>>
    /\ ~run[1].generated

\* C10: a run whose upload yields no record leaves the stored patterns and
\* debug_info as they were; a run whose upload yields records replaces both,
\* debug_info holding the sections of the new patterns.
C10_UploadFrame ==
    [][\A s \in Sessions :
          run'[s].uploaded =>
             IF run'[s].patterns = <<>>
             THEN /\ session_state'[s].patterns = session_state[s].patterns
                  /\ session_state'[s].debug_info = session_state[s].debug_info
             ELSE /\ session_state'[s].patterns = run'[s].patterns
                  /\ Len(session_state'[s].debug_info) = Len(run'[s].patterns)
                  /\ \A i \in 1..Len(run'[s].patterns) :
                        session_state'[s].debug_info[i]
                            = <<run'[s].patterns[i].areas, run'[s].patterns[i].support>>]_vars

\* an upload without records came after one with records
C10_Witness ==
    /\ run[1].uploaded
    /\ run[1].patterns = <<>>
    /\ session_state[1].patterns # <<>>
    /\ session_state[1].debug_info # <<>>

\* C7: two sessions that submitted the same form show the same paragraphs
\* and export document, whatever each has uploaded, stored or analysed.
C7_NonInterference ==
    \A s, t \in Sessions :
        (run[s].submitted /\ run[t].submitted /\ run[s].form = run[t].form) =>
            /\ run[s].generated = run[t].generated
            /\ run[s].areas_paragraph = run[t].areas_paragraph
            /\ run[s].support_paragraph = run[t].support_paragraph
            /\ run[s].download = run[t].download

\* the same form generated in a session without any upload and in a session
\* with a stored corpus and insights
C7_Witness ==
    /\ run[1].generated /\ run[2].generated
    /\ run[1].form = run[2].form
    /\ ~zip_file[1].present /\ session_state[1].patterns = <<>>
    /\ session_state[2].patterns # <<>> /\ session_state[2].has_insights

ExtractDone ==
    /\ call.fn = "extract_page3_content" /\ call.done
    /\ call.args.opens /\ Len(call.args.pages) >= 3 /\ call.args.pages[3] # <<>>

AreasPhrases == {"areas in need of housing", "area in need of housing"}
AreasEndKeywords ==
    {"support instructions", "moving expenses", "risks and risk mitigation", "non-housing"}
SupportEndKeywords == {"moving expenses", "risks and risk mitigation", "non-housing"}

\* the keyword occurrences after position p
After(positions, p) == {j \in positions : j > p}

AreasBetween(t) ==
    Trimmed(SubSeq(t, Min(OccurrencesOfAny(t, AreasPhrases)) + 1,
        Min(After(OccurrencesOfAny(t, AreasEndKeywords),
                  Min(OccurrencesOfAny(t, AreasPhrases)))) - 1))

SupportBetween(t) ==
    Trimmed(SubSeq(t, Min(Occurrences(t, "support instructions")) + 1,
        Min(After(OccurrencesOfAny(t, SupportEndKeywords) \cup {Len(t) + 1},
                  Min(Occurrences(t, "support instructions")))) - 1))

\* the page text as the splitter sees it
PageText == Normalize(call.args.pages[3])

\* C3: the areas section is the trimmed text between the first areas phrase
\* and the leftmost end keyword after it, the support section the trimmed
\* text between the first "support instructions" and the leftmost of its end
\* keywords after it, or the end of the text; the smallest offset wins.
C3_LeftmostBoundary ==
    ExtractDone =>
        /\ (/\ OccurrencesOfAny(PageText, AreasPhrases) # {}
            /\ After(OccurrencesOfAny(PageText, AreasEndKeywords),
                     Min(OccurrencesOfAny(PageText, AreasPhrases))) # {})
              => call.ret.areas = AreasBetween(PageText)
        /\ Occurrences(PageText, "support instructions") # {}
              => call.ret.support = SupportBetween(PageText)

\* "non-housing" comes before "moving expenses" after the areas phrase, and
\* the section ends at "non-housing"
C3_Witness ==
    /\ ExtractDone
    /\ PageText = <<"areas in need of housing", "word", "non-housing", "moving expenses">>
    /\ call.ret.areas = <<"word">>

SupportDone == call.fn = "generate_support_paragraph" /\ call.done

\* C4: the referral sentence ends the paragraph and lists the referrals in
\* order, each once: one referral bare, several with ", " between them and
\* ", and " before the last.
C4_ReferralList ==
    (SupportDone /\ call.args.referrals # <<>>) =>
        LET r == call.args.referrals
            n == Len(call.args.referrals)
            out == call.ret
            L == Len(call.ret)
        IN /\ out[L] = "."
           /\ out[L - 2 * n] = " with resources for "
           /\ \A i \in 1..n : out[L - 1 - 2 * (n - i)] = r[i][1]
           /\ \A i \in 1..(n - 1) :
                 out[L - 2 * (n - i)] = IF i = n - 1 THEN ", and " ELSE ", "
           /\ \A i \in 1..n : Cardinality(Occurrences(out, r[i][1])) = 1
           /\ Cardinality(Occurrences(out, ", and ")) = IF n > 1 THEN 1 ELSE 0
           /\ Occurrences(out, " and ") = {}

\* '...for therapy/counseling, and financial management.'
C4_Witness ==
    /\ SupportDone
    /\ call.args.referrals = <<<<"therapy/counseling">>, <<"financial management">>>>
    /\ SubSeq(call.ret, Len(call.ret) - 4, Len(call.ret))
          = <<" with resources for ", "therapy/counseling", ", and ",
              "financial management", ".">>

AreasDone == call.fn = "generate_areas_paragraph" /\ call.done

FixedOrder == <<"Communication", "Decision Making", "Managing Challenging Behaviors", "Mobility">>

TextOf(args, need) ==
    CASE need = "Communication" -> args.communication_issues
      [] need = "Decision Making" -> args.decision_issues
      [] need = "Managing Challenging Behaviors" -> args.behavior_issues
      [] need = "Mobility" -> args.mobility_issues

Emitted(args, need) == In(need, args.selected_needs) /\ TextOf(args, need) # <<>>

Intro(args) ==
    args.client_name \o <<" is currently navigating ">> \o args.mental_health
    \o <<", while seeking housing services.", "\n\n">>

\* C5: after the intro sentence comes exactly one paragraph for each need
\* that is selected and has text, in the order Communication, Decision
\* Making, Managing Challenging Behaviors, Mobility, whatever the order of
\* selection; the other needs are left out.
C5_FixedOrder ==
    AreasDone =>
        /\ SubSeq(call.ret, 1, Len(Intro(call.args))) = Intro(call.args)
        /\ \A k \in 1..Len(FixedOrder) :
              /\ Cardinality(Occurrences(call.ret, FixedOrder[k]))
                    = IF Emitted(call.args, FixedOrder[k]) THEN 1 ELSE 0
              /\ \A i \in Occurrences(call.ret, FixedOrder[k]) :
                    /\ i > Len(Intro(call.args))
                    /\ call.ret[i - 1] = "\n\n"
                    /\ call.ret[i + 1] = ": "
        /\ \A k1, k2 \in 1..Len(FixedOrder) :
              (k1 < k2 /\ Emitted(call.args, FixedOrder[k1]) /\ Emitted(call.args, FixedOrder[k2]))
                 => Min(Occurrences(call.ret, FixedOrder[k1])) < Min(Occurrences(call.ret, FixedOrder[k2]))
        /\ Cardinality(Occurrences(call.ret, "\n\n"))
              = Cardinality({k \in 1..Len(FixedOrder) : Emitted(call.args, FixedOrder[k])})
                + (IF \E k \in 1..Len(FixedOrder) : Emitted(call.args, FixedOrder[k]) THEN 0 ELSE 1)

\* Mobility selected first and Communication last, both with text, a
\* selected need without text and an unselected need with text
C5_Witness ==
    /\ AreasDone
    /\ call.args.selected_needs = <<"Mobility", "Decision Making", "Communication">>
    /\ call.args.decision_issues = <<>>
    /\ call.args.behavior_issues # <<>>
    /\ Occurrences(call.ret, "Communication") # {}
    /\ Occurrences(call.ret, "Mobility") # {}
    /\ Min(Occurrences(call.ret, "Communication")) < Min(Occurrences(call.ret, "Mobility"))

\* C6: the text after '{Label}: ' is the operator's text with its first
\* character capitalized and every other character as entered.
C6_OnlyFirstCharacterChanged ==
    AreasDone =>
        \A k \in 1..Len(FixedOrder) :
            Emitted(call.args, FixedOrder[k]) =>
                LET p == Min(Occurrences(call.ret, FixedOrder[k]))
                    text == TextOf(call.args, FixedOrder[k])
                IN SubSeq(call.ret, p + 2, p + 1 + Len(text))
                      = <<Upper(Head(text))>> \o Tail(text)

AnalyzeDone == call.fn = "analyze_paragraphs" /\ call.done

\* C9: the referrals of a SupportInsight hold no empty entry and no two
\* entries that are equal after trimming.
C9_ReferralsDeduplicated ==
    AnalyzeDone =>
        \A k \in 1..Len(call.ret.support_insights) :
            LET r == call.ret.support_insights[k].referrals
            IN /\ \A i \in 1..Len(r) : Trimmed(r[i]) # <<>>
               /\ \A i, j \in 1..Len(r) : Trimmed(r[i]) = Trimmed(r[j]) => i = j

\* two phrases were captured that differ only in the whitespace around
\* them, and the insight holds one entry
C9_Witness ==
    /\ AnalyzeDone
    /\ Len(call.args) = 1
    /\ Len(FindReferrals(call.args[1].support, 1)) = 2
    /\ FindReferrals(call.args[1].support, 1)[1] # FindReferrals(call.args[1].support, 1)[2]
    /\ Len(call.ret.support_insights) = 1
    /\ Len(call.ret.support_insights[1].referrals) = 1

====
